---- MODULE Spec2Model ----
(***************************************************************************)
(* Model of the Supabase MCP server: the SupabaseClient query translator   *)
(* (supabase_client.py) and the four FastMCP tools (server.py), run        *)
(* against one backend table.                                              *)
(*                                                                         *)
(* Python values: Optional[x] is a tuple of length 0 (None) or 1 (the      *)
(* value); a dict is the sequence of its (key, value) pairs in insertion   *)
(* order; a list is a sequence.                                            *)
(***************************************************************************)
EXTENDS Integers, Sequences, FiniteSets, TLC

\* ------------------------------------------------------------------ bounds
MaxRows == 2        \* rows the backend table holds at most (system runs)
MaxReadRows == 3    \* rows of the tables the read-only runs start from
MaxLimit == 2       \* largest limit / offset a caller passes
MaxBatch == 2       \* longest list of records one create call passes

\* ------------------------------------------------------------ Python values
None == <<>>
Some(x) == <<x>>
IsNone(o) == o = <<>>
Val(o) == o[1]

Min(a, b) == IF a < b THEN a ELSE b

\* bool(x) of an Optional[int]: None and 0 are falsy
TruthyInt(o) == ~IsNone(o) /\ Val(o) # 0
\* bool(x) of an Optional[dict] / Optional[str]: None and the empty one are falsy
TruthyDict(o) == ~IsNone(o) /\ Val(o) # <<>>
TruthyStr(o) == ~IsNone(o) /\ Val(o) # ""

\* str.lower() on the direction literals the callers pass
Lower(s) ==
  CASE s \in {"asc", "ASC", "Asc"} -> "asc"
    [] s \in {"desc", "DESC"} -> "desc"
    [] OTHER -> s

\* ------------------------------------------------------------ backend data
Statuses == {"a", "b"}
Stamps == {1, 2}
Columns == {"status", "created_at"}
Row == [status : Statuses, created_at : Stamps]
TheTable == "users"

RECURSIVE SeqsUpTo(_, _)
SeqsUpTo(S, n) ==
  IF n = 0 THEN {<<>>}
  ELSE LET shorter == SeqsUpTo(S, n - 1)
       IN shorter \cup {Append(s, x) : s \in {t \in shorter : Len(t) = n - 1}, x \in S}

\* ------------------------------------------------- backend query builder
\* The object the builder calls compose; calls is the list of calls made on it.
TableQuery(name) ==
  [table |-> name, verb |-> "none", columns |-> "*", eqs |-> <<>>, order |-> <<>>,
   limit |-> None, offset |-> None, payload |-> <<>>, calls |-> <<"table">>]
Select(q, columns) ==
  [q EXCEPT !.verb = "select", !.columns = columns, !.calls = Append(@, "select")]
Eq(q, column, value) ==
  [q EXCEPT !.eqs = Append(@, <<column, value>>), !.calls = Append(@, "eq")]
Order(q, column, desc) ==
  [q EXCEPT !.order = Append(@, <<column, desc>>), !.calls = Append(@, "order")]
Limit(q, n) == [q EXCEPT !.limit = Some(n), !.calls = Append(@, "limit")]
Offset(q, n) == [q EXCEPT !.offset = Some(n), !.calls = Append(@, "offset")]
Insert(q, records) ==
  [q EXCEPT !.verb = "insert", !.payload = records, !.calls = Append(@, "insert")]
Update(q, updates) ==
  [q EXCEPT !.verb = "update", !.payload = updates, !.calls = Append(@, "update")]
Delete(q) == [q EXCEPT !.verb = "delete", !.calls = Append(@, "delete")]

\* ---------------------------------------------------- backend execution
\* Rank of a column value in the column's sort order (text by collation).
Key(row, column) ==
  IF column = "status" THEN (IF row.status = "a" THEN 1 ELSE 2) ELSE row.created_at

\* row satisfies every equality constraint of the query (conjunction)
Matches(row, eqs) == \A i \in 1..Len(eqs) : row[eqs[i][1]] = eqs[i][2]

RECURSIVE Filtered(_, _)
Filtered(rows, eqs) ==
  IF rows = <<>> THEN <<>>
  ELSE IF Matches(Head(rows), eqs)
       THEN <<Head(rows)>> \o Filtered(Tail(rows), eqs)
       ELSE Filtered(Tail(rows), eqs)

RECURSIVE Unmatched(_, _)
Unmatched(rows, eqs) ==
  IF rows = <<>> THEN <<>>
  ELSE IF Matches(Head(rows), eqs)
       THEN Unmatched(Tail(rows), eqs)
       ELSE <<Head(rows)>> \o Unmatched(Tail(rows), eqs)

\* r1 sorts strictly before r2 under the order clauses, first clause first
RECURSIVE Before(_, _, _)
Before(r1, r2, order) ==
  IF order = <<>> THEN FALSE
  ELSE LET k1 == Key(r1, Head(order)[1])
           k2 == Key(r2, Head(order)[1])
       IN IF k1 = k2 THEN Before(r1, r2, Tail(order))
          ELSE IF Head(order)[2] THEN k1 > k2 ELSE k1 < k2

RECURSIVE SortRows(_, _)
SortRows(rows, order) ==
  IF rows = <<>> THEN <<>>
  ELSE LET n == Len(rows)
           rest == SortRows(SubSeq(rows, 1, n - 1), order)
           r == rows[n]
           pos == Cardinality({i \in 1..Len(rest) : ~Before(r, rest[i], order)})
       IN SubSeq(rest, 1, pos) \o <<r>> \o SubSeq(rest, pos + 1, Len(rest))

\* OFFSET then LIMIT of a row sequence; an absent clause leaves it alone
Window(rows, limit, offset) ==
  LET skipped == IF IsNone(offset) THEN rows
                 ELSE SubSeq(rows, Val(offset) + 1, Len(rows))
  IN IF IsNone(limit) \/ Val(limit) >= Len(skipped) THEN skipped
     ELSE SubSeq(skipped, 1, Val(limit))

\* the columns a selector names
Selected(columns) == IF columns = "*" THEN Columns ELSE {columns}
Project(rows, columns) ==
  [i \in 1..Len(rows) |-> [c \in Selected(columns) |-> rows[i][c]]]

\* a row with the update's columns overwritten
Merge(row, updates) ==
  [c \in DOMAIN row |->
     IF \E i \in 1..Len(updates) : updates[i][1] = c
     THEN updates[CHOOSE i \in 1..Len(updates) : updates[i][1] = c][2]
     ELSE row[c]]

KnownColumns(pairs) == \A i \in 1..Len(pairs) : pairs[i][1] \in Columns

Failure(msg, tbl) == [ok |-> FALSE, msg |-> msg, data |-> <<>>, table |-> tbl]
Success(data, tbl) == [ok |-> TRUE, msg |-> "", data |-> data, table |-> tbl]

\* The backend's answer to one composed query against the stored rows tbl:
\* whether it succeeded, response.data, and the rows stored afterwards.
Execute(q, tbl) ==
  IF q.table # TheTable THEN Failure("relation does not exist", tbl)
  ELSE IF ~KnownColumns(q.eqs) \/ ~KnownColumns(q.order)
  THEN Failure("column does not exist", tbl)
  ELSE CASE q.verb = "select" ->
         IF ~(Selected(q.columns) \subseteq Columns)
         THEN Failure("column does not exist", tbl)
         ELSE Success(Project(Window(SortRows(Filtered(tbl, q.eqs), q.order),
                                     q.limit, q.offset), q.columns), tbl)
       [] q.verb = "insert" ->
         IF \E i \in 1..Len(q.payload.rows) : q.payload.rows[i] \notin Row
         THEN Failure("violates not-null constraint", tbl)
         ELSE Success(q.payload.rows, tbl \o q.payload.rows)
       [] q.verb = "update" ->
         IF ~KnownColumns(q.payload) THEN Failure("column does not exist", tbl)
         ELSE LET new == [i \in 1..Len(tbl) |->
                            IF Matches(tbl[i], q.eqs) THEN Merge(tbl[i], q.payload)
                            ELSE tbl[i]]
              IN Success([i \in 1..Len(Filtered(tbl, q.eqs)) |->
                            Merge(Filtered(tbl, q.eqs)[i], q.payload)], new)
       [] q.verb = "delete" ->
         Success(Filtered(tbl, q.eqs), Unmatched(tbl, q.eqs))
       [] OTHER -> Failure("no operation", tbl)

\* faulty variant: a failed execute is retried once
CallRetrying(q, fault, tbl) ==
  LET chain == Append(q.calls, "execute")
      r == Execute(q, tbl)
  IN IF fault > 0 /\ fault <= Len(q.calls)
     THEN [raised |-> TRUE, msg |-> "backend call failed", data |-> <<>>,
           table |-> tbl, calls |-> SubSeq(chain, 1, fault)]
     ELSE [raised |-> ~r.ok, msg |-> r.msg, data |-> r.data, table |-> r.table,
           calls |-> IF fault > 0 THEN Append(chain, "execute") ELSE chain]

\* One run of a composed query: the builder calls in order, then execute.
\* fault = 0: no call raises by itself; fault = k: the k-th call raises.
\* calls are the calls made, the raising one included.
Call(q, fault, tbl) ==
  LET chain == Append(q.calls, "execute")
      r == Execute(q, tbl)
  IN IF fault > 0
     THEN [raised |-> TRUE, msg |-> "backend call failed", data |-> <<>>,
           table |-> tbl, calls |-> SubSeq(chain, 1, fault)]
     ELSE [raised |-> ~r.ok, msg |-> r.msg, data |-> r.data,
           table |-> r.table, calls |-> chain]

\* ------------------------------------------------ supabase_client.py
\* faulty variant: only the URL is checked
MissingUrlOnly(url, key) == ~TruthyStr(url)

\* SupabaseClient.__init__: the credentials check before create_client
MissingCredentials(url, key) == ~TruthyStr(url) \/ ~TruthyStr(key)

\* for column, value in filters.items(): query = query.eq(column, value)
RECURSIVE ApplyFilters(_, _)
ApplyFilters(q, filters) ==
  IF filters = <<>> THEN q
  ELSE ApplyFilters(Eq(q, Head(filters)[1], Head(filters)[2]), Tail(filters))

\* faulty variant: the direction is compared without lower()
RECURSIVE ApplyOrderCaseSensitive(_, _)
ApplyOrderCaseSensitive(q, order_by) ==
  IF order_by = <<>> THEN q
  ELSE ApplyOrderCaseSensitive(IF Head(order_by)[2] = "asc"
                               THEN Order(q, Head(order_by)[1], FALSE)
                               ELSE Order(q, Head(order_by)[1], TRUE),
                               Tail(order_by))

\* for column, direction in order_by.items(): asc -> order(column), else desc=True
RECURSIVE ApplyOrder(_, _)
ApplyOrder(q, order_by) ==
  IF order_by = <<>> THEN q
  ELSE ApplyOrder(IF Lower(Head(order_by)[2]) = "asc"
                  THEN Order(q, Head(order_by)[1], FALSE)
                  ELSE Order(q, Head(order_by)[1], TRUE),
                  Tail(order_by))

\* faulty variant: elif offset, the offset is dropped when a limit is given
read_records_elif_offset(table_name, columns, filters, limit, offset, order_by) ==
  LET q0 == Select(TableQuery(table_name), columns)
      q1 == IF TruthyDict(filters) THEN ApplyFilters(q0, Val(filters)) ELSE q0
      q2 == IF TruthyDict(order_by) THEN ApplyOrder(q1, Val(order_by)) ELSE q1
  IN IF TruthyInt(limit) THEN Limit(q2, Val(limit))
     ELSE IF TruthyInt(offset) THEN Offset(q2, Val(offset)) ELSE q2

\* faulty variant: the read builds the delete of the rows it should return
read_records_deleting(table_name, columns, filters, limit, offset, order_by) ==
  Delete(ApplyFilters(TableQuery(table_name), IF IsNone(filters) THEN <<>> ELSE Val(filters)))

\* SupabaseClient.read_records up to (not including) query.execute()
SupabaseClient_read_records(table_name, columns, filters, limit, offset, order_by) ==
  LET q0 == Select(TableQuery(table_name), columns)
      q1 == IF TruthyDict(filters) THEN ApplyFilters(q0, Val(filters)) ELSE q0
      q2 == IF TruthyDict(order_by) THEN ApplyOrder(q1, Val(order_by)) ELSE q1
      q3 == IF TruthyInt(limit) THEN Limit(q2, Val(limit)) ELSE q2
  IN IF TruthyInt(offset) THEN Offset(q3, Val(offset)) ELSE q3

\* SupabaseClient.create_records up to execute()
SupabaseClient_create_records(table_name, records) ==
  Insert(TableQuery(table_name), records)

\* faulty variant: the filters are not applied, every row is updated
update_records_unfiltered(table_name, updates, filters) ==
  Update(TableQuery(table_name), updates)

\* SupabaseClient.update_records up to execute()
SupabaseClient_update_records(table_name, updates, filters) ==
  Update(ApplyFilters(TableQuery(table_name), filters), updates)

\* faulty variant: an empty filter set is refused, nothing is issued
delete_records_guarded(table_name, filters) ==
  IF filters = <<>> THEN TableQuery(table_name)
  ELSE Delete(ApplyFilters(TableQuery(table_name), filters))

\* faulty variant: only the first filter entry is applied
delete_records_first_filter(table_name, filters) ==
  Delete(ApplyFilters(TableQuery(table_name), SubSeq(filters, 1, Min(1, Len(filters)))))

\* SupabaseClient.delete_records up to execute()
SupabaseClient_delete_records(table_name, filters) ==
  Delete(ApplyFilters(TableQuery(table_name), filters))

\* ---------------------------------------------------------- server.py
\* faulty variant: only the backend's own errors are caught
CaughtBackendOnly(out) == out.msg # "backend call failed"

\* except Exception as e: every failure of the call is caught by the tool
Caught(out) == TRUE

\* return {"records": records}  /  return {"error": str(e), "records": []}
Envelope(out) ==
  IF out.raised THEN [error |-> out.msg, records |-> <<>>]
  ELSE [records |-> out.data]

\* ------------------------------------------------------------- state
VARIABLES
  pc,        \* "start": server.py not yet imported; "serving"; "aborted"; "crashed"
  env,       \* the process environment: SUPABASE_URL, SUPABASE_SERVICE_ROLE_KEY
  supabase,  \* the module-level SupabaseClient: None, or its url, key and client
  table,     \* the rows the backend stores in TheTable
  last       \* the latest tool invocation: its arguments, backend calls, response

vars == <<pc, env, supabase, table, last>>

NoCall ==
  [op |-> "none", table |-> "", columns |-> "", filters |-> None, order_by |-> None,
   limit |-> None, offset |-> None, updates |-> None, records |-> None,
   calls |-> <<>>, raised |-> FALSE, response |-> [records |-> <<>>]]

\* what a tool invocation leaves behind
Served(op, args, out) ==
  [op |-> op, table |-> args.table, columns |-> args.columns,
   filters |-> args.filters, order_by |-> args.order_by, limit |-> args.limit,
   offset |-> args.offset, updates |-> args.updates, records |-> args.records,
   calls |-> out.calls, raised |-> out.raised, response |-> Envelope(out)]

NoArgs ==
  [table |-> "", columns |-> "", filters |-> None, order_by |-> None,
   limit |-> None, offset |-> None, updates |-> None, records |-> None]

\* ------------------------------------------------------------- inputs
EnvValues == {None, Some(""), Some("https://db.example")}
TableNames == {TheTable, "ghost"}
ColumnSelectors == {"*", "status"}
FilterSets ==
  {<<>>, <<<<"status", "a">>>>, <<<<"created_at", 1>>>>,
   <<<<"status", "a">>, <<"created_at", 2>>>>, <<<<"zz", "a">>>>}
OrderSets ==
  {<<<<"created_at", "asc">>>>, <<<<"created_at", "ASC">>>>,
   <<<<"created_at", "desc">>>>, <<<<"created_at", "newest">>>>,
   <<<<"status", "desc">>, <<"created_at", "asc">>>>}
UpdateSets ==
  {<<<<"status", "a">>>>, <<<<"status", "b">>>>, <<<<"created_at", 2>>>>,
   <<<<"zz", "a">>>>}
Pages == {None} \cup {Some(n) : n \in 0..MaxLimit}
\* a record as a caller passes it: complete, or lacking a required column
PayloadRows ==
  {[status |-> "a", created_at |-> 1], [status |-> "b", created_at |-> 2],
   [status |-> "a"]}
Payloads ==
  {[one |-> TRUE, rows |-> <<r>>] : r \in PayloadRows}
  \cup {[one |-> FALSE, rows |-> rs] : rs \in SeqsUpTo(PayloadRows \cap Row, MaxBatch)}
\* the rows of the pagination example: a 5-row table
FiveRows ==
  <<[status |-> "a", created_at |-> 1], [status |-> "b", created_at |-> 2],
    [status |-> "a", created_at |-> 2], [status |-> "b", created_at |-> 1],
    [status |-> "a", created_at |-> 1]>>

\* The argument sets a run draws from: the system runs keep read's arguments few
\* and let any backend call raise; the read-only runs vary every read argument.
SystemInputs ==
  [tables |-> {TheTable}, columns |-> {"*"},
   filters |-> {None} \cup {Some(f) : f \in FilterSets},
   views |-> {[order_by |-> None, limit |-> None, offset |-> None],
              [order_by |-> None, limit |-> Some(0), offset |-> Some(0)],
              [order_by |-> Some(<<<<"created_at", "desc">>>>),
               limit |-> Some(1), offset |-> Some(1)]},
   strict |-> FilterSets, updates |-> UpdateSets, records |-> Payloads,
   faults |-> Nat]
ReadInputs ==
  [tables |-> TableNames, columns |-> ColumnSelectors,
   filters |-> {None, Some(<<>>), Some(<<<<"status", "a">>>>)},
   views |-> [order_by : {None} \cup {Some(o) : o \in OrderSets},
              limit : Pages, offset : Pages],
   strict |-> FilterSets, updates |-> UpdateSets, records |-> Payloads,
   faults |-> {0, 1}]

\* --------------------------------------------------------------- actions
\* server.py line 21, at import: supabase = SupabaseClient()
Startup ==
  /\ pc = "start"
  /\ IF MissingCredentials(env.url, env.key)
     THEN pc' = "aborted" /\ supabase' = None
     ELSE pc' = "serving" /\ supabase' = Some([url |-> env.url, key |-> env.key])
  /\ UNCHANGED <<env, table, last>>

\* the state a tool leaves: the backend's rows, the response, the process
Respond(op, args, out) ==
  /\ table' = out.table
  /\ last' = Served(op, args, out)
  /\ pc' = IF Caught(out) THEN "serving" ELSE "crashed"
  /\ UNCHANGED <<env, supabase>>

\* @mcp.tool read_records
read_records(P) ==
  /\ pc = "serving"
  /\ \E t \in P.tables, c \in P.columns, f \in P.filters, v \in P.views :
       LET q == SupabaseClient_read_records(t, c, f, v.limit, v.offset, v.order_by)
       IN \E fault \in P.faults \cap 0..(Len(q.calls) + 1) :
            Respond("read",
                    [NoArgs EXCEPT !.table = t, !.columns = c, !.filters = f,
                                   !.order_by = v.order_by, !.limit = v.limit,
                                   !.offset = v.offset],
                    Call(q, fault, table))

\* @mcp.tool create_records
create_records(P) ==
  /\ pc = "serving"
  /\ \E t \in P.tables, r \in P.records :
       LET q == SupabaseClient_create_records(t, r)
       IN /\ Len(table) + Len(r.rows) <= MaxRows
          /\ \E fault \in P.faults \cap 0..(Len(q.calls) + 1) :
               Respond("create", [NoArgs EXCEPT !.table = t, !.records = Some(r)],
                       Call(q, fault, table))

\* @mcp.tool update_records
update_records(P) ==
  /\ pc = "serving"
  /\ \E t \in P.tables, u \in P.updates, f \in P.strict :
       LET q == SupabaseClient_update_records(t, u, f)
       IN \E fault \in P.faults \cap 0..(Len(q.calls) + 1) :
            Respond("update",
                    [NoArgs EXCEPT !.table = t, !.updates = Some(u), !.filters = Some(f)],
                    Call(q, fault, table))

\* @mcp.tool delete_records
delete_records(P) ==
  /\ pc = "serving"
  /\ \E t \in P.tables, f \in P.strict :
       LET q == SupabaseClient_delete_records(t, f)
       IN \E fault \in P.faults \cap 0..(Len(q.calls) + 1) :
            Respond("delete", [NoArgs EXCEPT !.table = t, !.filters = Some(f)],
                    Call(q, fault, table))

\* ------------------------------------------------------- specifications
\* The server from process start, against any stored rows.
Init ==
  /\ pc = "start"
  /\ env \in [url : EnvValues, key : EnvValues]
  /\ supabase = None
  /\ table \in SeqsUpTo(Row, MaxRows)
  /\ last = NoCall

Next ==
  \/ Startup
  \/ read_records(SystemInputs)
  \/ create_records(SystemInputs)
  \/ update_records(SystemInputs)
  \/ delete_records(SystemInputs)

Spec == Init /\ [][Next]_vars

\* One read by a started server, over every stored table and argument choice.
InitRead ==
  /\ pc = "serving"
  /\ env = [url |-> Some("https://db.example"), key |-> Some("service-role")]
  /\ supabase = Some([url |-> env.url, key |-> env.key])
  /\ table \in SeqsUpTo(Row, MaxReadRows) \cup {FiveRows}
  /\ last = NoCall

NextRead == last.op = "none" /\ read_records(ReadInputs)

SpecRead == InitRead /\ [][NextRead]_vars

\* ------------------------------------------------------------- claims
Count(seq, x) == Cardinality({i \in 1..Len(seq) : seq[i] = x})
Range(seq) == {seq[i] : i \in 1..Len(seq)}
\* the filter set of an invocation: an absent one constrains nothing
FilterEqs(f) == IF IsNone(f) THEN <<>> ELSE Val(f)
Absent(o) == o \in {None, Some("")}

\* C1: whenever a tool invocation fails, whatever backend call raised, the tool
\* returns exactly {error: <message>, records: []}, nothing propagates, and the
\* server goes on serving.
C1_ErrorEnvelope ==
  last.op # "none" =>
    /\ pc = "serving"
    /\ last.raised =>
         /\ DOMAIN last.response = {"error", "records"}
         /\ last.response.error \in STRING
         /\ last.response.records = <<>>

\* an update whose eq call raised while the query was being built
C1_Witness ==
  /\ last.op = "update" /\ last.raised /\ pc = "serving"
  /\ last.calls = <<"table", "eq">>
  /\ last.response = [error |-> "backend call failed", records |-> <<>>]
  /\ table # <<>>

\* C9: with either credential absent the import aborts before a client exists
\* and no tool is ever served; a tool is served only with the client built
\* from both credentials.
C9_StartupGate ==
  /\ (Absent(env.url) \/ Absent(env.key)) =>
       pc \in {"start", "aborted"} /\ supabase = None /\ last = NoCall
  /\ pc = "aborted" => (Absent(env.url) \/ Absent(env.key))
  /\ last.op # "none" =>
       /\ supabase = Some([url |-> env.url, key |-> env.key])
       /\ ~Absent(env.url) /\ ~Absent(env.key)

\* the URL is set, the service-role key is not: startup has aborted
C9_Witness ==
  /\ pc = "aborted" /\ env.url = Some("https://db.example") /\ env.key = None
  /\ supabase = None /\ last = NoCall

\* C10: a read step, failed or not, leaves the stored rows as they were, and no
\* tool step changes the client built at startup or the environment.
C10_ReadIsPure ==
  [][/\ last'.op = "read" => table' = table
     /\ pc = "serving" => (supabase' = supabase /\ env' = env)]_vars

\* a read that returned both stored rows
C10_Witness ==
  /\ last.op = "read" /\ ~last.raised /\ Len(table) = 2
  /\ last.response.records = table
  /\ ~IsNone(supabase)

\* C3 (as claimed): every invocation makes exactly one execute call, as the
\* last backend call, after one eq per filter entry, one order per order entry
\* and the limit and offset the request carries.
C3_ExactlyOneExecute ==
  last.op # "none" =>
    /\ Count(last.calls, "execute") = 1
    /\ last.calls[Len(last.calls)] = "execute"
    /\ Count(last.calls, "eq") = Len(FilterEqs(last.filters))
    /\ Count(last.calls, "order") = Len(FilterEqs(last.order_by))
    /\ Count(last.calls, "limit") = (IF IsNone(last.limit) THEN 0 ELSE 1)
    /\ Count(last.calls, "offset") = (IF IsNone(last.offset) THEN 0 ELSE 1)

\* C3 (amended): no invocation executes twice or adds a clause after executing;
\* it executes once unless a builder call raised first, and then not at all;
\* an executed query carries one eq per filter entry, one order per order
\* entry, and a limit / offset clause exactly when that argument is non-zero.
C3_AtMostOneExecuteLast ==
  last.op # "none" =>
    /\ Count(last.calls, "execute") <= 1
    /\ \A i \in 1..Len(last.calls) : last.calls[i] = "execute" => i = Len(last.calls)
    /\ Count(last.calls, "execute") = 0 => last.raised
    /\ Count(last.calls, "execute") = 1 =>
         /\ Count(last.calls, "eq") = Len(FilterEqs(last.filters))
         /\ Count(last.calls, "order") = Len(FilterEqs(last.order_by))
         /\ Count(last.calls, "limit") = (IF last.limit \in {None, Some(0)} THEN 0 ELSE 1)
         /\ Count(last.calls, "offset") = (IF last.offset \in {None, Some(0)} THEN 0 ELSE 1)
         /\ Count(last.calls, "table") = 1
         /\ Count(last.calls, "select") = (IF last.op = "read" THEN 1 ELSE 0)
         /\ Count(last.calls, "insert") = (IF last.op = "create" THEN 1 ELSE 0)
         /\ Count(last.calls, "update") = (IF last.op = "update" THEN 1 ELSE 0)
         /\ Count(last.calls, "delete") = (IF last.op = "delete" THEN 1 ELSE 0)

\* a filtered, ordered, paginated read that executed once, last
C3_Witness ==
  /\ last.op = "read" /\ ~last.raised
  /\ last.calls = <<"table", "select", "eq", "eq", "order", "limit", "offset", "execute">>

\* C6: update and delete with an empty filter set add no eq constraint and are
\* issued as they stand: unless the backend fails the call, update rewrites
\* every stored row and delete removes every stored row.
C6_NoEmptyFilterGuard ==
  [][(last'.op \in {"update", "delete"} /\ last'.filters = Some(<<>>)) =>
       /\ Count(last'.calls, "eq") = 0
       /\ Count(last'.calls, "execute") = 1 => Count(last'.calls, last'.op) = 1
       /\ last'.raised =>
            last'.response.error \in {"backend call failed", "column does not exist"}
       /\ (~last'.raised /\ last'.op = "delete") =>
            table' = <<>> /\ last'.response.records = table
       /\ (~last'.raised /\ last'.op = "update") =>
            /\ Len(table') = Len(table)
            /\ \A i \in 1..Len(table) : table'[i] = Merge(table[i], Val(last'.updates))
            /\ last'.response.records = table']_vars

\* an unfiltered delete that removed both stored rows
C6_Witness ==
  /\ last.op = "delete" /\ last.filters = Some(<<>>) /\ ~last.raised
  /\ Len(last.response.records) = 2 /\ table = <<>>
  /\ last.calls = <<"table", "delete", "execute">>

\* C5: a successful delete returns exactly the stored rows that matched its
\* filters, as they were, and removes them; a successful read with the same
\* filters, no limit and no offset, right after it returns no rows.
C5_DeleteThenRead ==
  [][/\ (last'.op = "delete" /\ ~last'.raised) =>
          /\ last'.response.records = Filtered(table, Val(last'.filters))
          /\ table' = Unmatched(table, Val(last'.filters))
     /\ (/\ last.op = "delete" /\ ~last.raised
         /\ last'.op = "read" /\ ~last'.raised
         /\ FilterEqs(last'.filters) = Val(last.filters)
         /\ IsNone(last'.limit) /\ IsNone(last'.offset)) =>
          last'.response.records = <<>>]_vars

\* a filtered delete that returned one row and left the other one stored
C5_Witness ==
  /\ last.op = "delete" /\ ~last.raised
  /\ last.filters = Some(<<<<"status", "a">>, <<"created_at", 2>>>>)
  /\ last.response.records = <<[status |-> "a", created_at |-> 2]>>
  /\ table = <<[status |-> "a", created_at |-> 1]>>

\* a read with filters only: every column, no order, no limit, no offset
PlainRead(c) ==
  /\ c.op = "read" /\ ~c.raised /\ c.columns = "*"
  /\ IsNone(c.order_by) /\ IsNone(c.limit) /\ IsNone(c.offset)
\* the update assigns no filter column a value other than the filter's
Agrees(updates, filters) ==
  \A i \in 1..Len(updates), j \in 1..Len(filters) :
    updates[i][1] = filters[j][1] => updates[i][2] = filters[j][2]
\* read(F) then update(U, F): the update returns the rows read, rewritten by U
ReadThenUpdate ==
  (/\ PlainRead(last)
   /\ last'.op = "update" /\ ~last'.raised
   /\ Val(last'.filters) = FilterEqs(last.filters)) =>
     /\ Len(last'.response.records) = Len(last.response.records)
     /\ \A i \in 1..Len(last.response.records) :
          last'.response.records[i] = Merge(last.response.records[i], Val(last'.updates))

\* C4 (as claimed): in read(F); update(U, F); read(F), all three successful,
\* every row of the first read comes back from the second read rewritten by U.
\* Stated over the two hand-overs: the update returns the first read's rows
\* rewritten by U, and the second read returns every row the update returned.
C4_RoundTrip ==
  [][/\ ReadThenUpdate
     /\ (/\ last.op = "update" /\ ~last.raised
         /\ PlainRead(last')
         /\ FilterEqs(last'.filters) = Val(last.filters)) =>
          Range(last.response.records) \subseteq Range(last'.response.records)]_vars

\* C4 (amended): the same, provided U gives no column that F constrains a
\* value other than F's; the second read then returns exactly the rows
\* the update returned.
C4_RoundTripAgreeing ==
  [][/\ ReadThenUpdate
     /\ (/\ last.op = "update" /\ ~last.raised
         /\ PlainRead(last')
         /\ FilterEqs(last'.filters) = Val(last.filters)
         /\ Agrees(Val(last.updates), Val(last.filters))) =>
          last'.response.records = last.response.records]_vars

\* the update of the status = a rows to created_at = 2 returned the rewritten row
C4_Witness ==
  /\ last.op = "update" /\ ~last.raised
  /\ last.filters = Some(<<<<"status", "a">>>>)
  /\ last.updates = Some(<<<<"created_at", 2>>>>)
  /\ last.response.records = <<[status |-> "a", created_at |-> 2]>>
  /\ table = <<[status |-> "a", created_at |-> 2], [status |-> "b", created_at |-> 1]>>

\* C2 (as claimed): limit = 0 returns no rows; offset = 0 skips no rows.
C2_ZeroIsMeaningful ==
  (last.op = "read" /\ ~last.raised) =>
    /\ last.limit = Some(0) => last.response.records = <<>>
    /\ (last.offset = Some(0) /\ IsNone(last.limit)) =>
         Len(last.response.records) = Len(Filtered(table, FilterEqs(last.filters)))

NonDecreasing(rows) ==
  \A i \in 1..(Len(rows) - 1) : rows[i].created_at <= rows[i + 1].created_at
NonIncreasing(rows) ==
  \A i \in 1..(Len(rows) - 1) : rows[i].created_at >= rows[i + 1].created_at
\* a successful read of every column ordered by created_at alone, in direction d
OrderedRead(d) ==
  /\ last.op = "read" /\ ~last.raised /\ last.columns = "*"
  /\ last.order_by = Some(<<<<"created_at", d>>>>)

\* C7 (as claimed): desc gives non-increasing created_at; asc and every other
\* direction literal give non-decreasing created_at.
C7_OtherIsAscending ==
  /\ OrderedRead("desc") => NonIncreasing(last.response.records)
  /\ \A d \in {"asc", "ASC", "newest"} :
       OrderedRead(d) => NonDecreasing(last.response.records)

\* C7 (amended): asc in any letter case gives non-decreasing created_at; desc
\* and every other direction literal give non-increasing created_at.
C7_OtherIsDescending ==
  /\ \A d \in {"desc", "newest"} :
       OrderedRead(d) => NonIncreasing(last.response.records)
  /\ \A d \in {"asc", "ASC"} :
       OrderedRead(d) => NonDecreasing(last.response.records)

\* an unknown direction literal returned the later row first
C7_Witness ==
  /\ OrderedRead("newest")
  /\ table = <<[status |-> "a", created_at |-> 1], [status |-> "b", created_at |-> 2]>>
  /\ last.response.records = <<table[2], table[1]>>

\* the rows the same read returns without limit and offset
Unpaged ==
  Execute(SupabaseClient_read_records(last.table, last.columns, last.filters,
                                      None, None, last.order_by), table).data

\* C8: with limit L > 0 and offset O > 0 a read returns rows O+1 .. O+L of the
\* rows it would return unpaged (fewer at the end); limit alone returns the
\* first L, offset alone all after the first O.
C8_Window ==
  (last.op = "read" /\ ~last.raised) =>
    LET L == last.limit
        O == last.offset
        got == last.response.records
    IN /\ (TruthyInt(L) /\ TruthyInt(O)) =>
            got = SubSeq(Unpaged, Val(O) + 1, Min(Val(O) + Val(L), Len(Unpaged)))
       /\ (TruthyInt(L) /\ O \in {None, Some(0)}) =>
            got = SubSeq(Unpaged, 1, Min(Val(L), Len(Unpaged)))
       /\ (IsNone(L) /\ TruthyInt(O)) =>
            got = SubSeq(Unpaged, Val(O) + 1, Len(Unpaged))

\* limit = 2, offset = 1 against the 5-row table returned rows 2 and 3
C8_Witness ==
  /\ table = FiveRows /\ last.op = "read" /\ ~last.raised
  /\ last.limit = Some(2) /\ last.offset = Some(1)
  /\ IsNone(last.filters) /\ IsNone(last.order_by) /\ last.columns = "*"
  /\ last.response.records = <<FiveRows[2], FiveRows[3]>>

====
